---- MODULE Spec2Model ----
(***************************************************************************)
(* Polyco table of pint/models/polycos.py: polycoEntry, the tempo reader,  *)
(* and the Polycos methods read_polyco_file, generate_polycos, find_entry, *)
(* eval_phase, eval_abs_phase, eval_spin_freq, add_polyco_file_format.     *)
(*                                                                         *)
(* Representation.                                                         *)
(*  - Times (MJD) are integers, in days; generate_polycos works on         *)
(*    astropy quantities and is modelled in minutes (1 day = 1440 min).    *)
(*  - Phases are counted in quarter cycles: a Phase is [int, frac] with    *)
(*    int in cycles and frac in quarter cycles, 0 <= frac < 4.             *)
(*  - Python's None is the empty tuple, a present value x is <<x>>.        *)
(*  - Python indices are kept 0-based in results (find_entry returns the   *)
(*    numpy index array, which may hold -1); sequences are 1-based.        *)
(*  - self.fileName is written by read_polyco_file and read by no method;  *)
(*    it is not part of the state.                                         *)
(***************************************************************************)
EXTENDS Integers, Sequences, FiniteSets, TLC

VARIABLES
    dataTable,      \* self.dataTable: None or the sequence of polycoEntry rows
    tStart,         \* self.tStart: None or the cached array of entry starts
    tStop,          \* self.tStop: None or the cached array of entry stops
    fileFormat,     \* self.fileFormat
    polycoFormat,   \* self.polycoFormat of each Polycos object (a list of dicts)
    registry,       \* astropy.io.registry: the list of (format, kind) registrations
    ret             \* the last call: its name, arguments and outcome

vars == <<dataTable, tStart, tStop, fileFormat, polycoFormat, registry, ret>>

None == <<>>
Some(x) == <<x>>

(***************************************************************************)
(* Bounds of the model.                                                    *)
(***************************************************************************)
MaxTime == 6        \* query times are 0 .. MaxTime
MaxSeg == 2         \* a polyco file holds at most MaxSeg entries
NumObjs == 2        \* Polycos objects sharing the process-wide registry
MaxCoeff == 4       \* the files of the reader declare 2 .. MaxCoeff coefficients

Times == 0 .. MaxTime
Mids == {1, 3, 5}   \* the midpoints (TMID) of the entries of a file
Objs == 1 .. NumObjs

MinutesPerDay == 1440

(***************************************************************************)
(* Phase (pint/phase.py): integer and fractional cycles, the fraction      *)
(* renormalised and the carry absorbed by the integer part.                *)
(***************************************************************************)
Phase(q) == [int |-> q \div 4, frac |-> q % 4]

Phase2(i, f) == Phase(4 * i + f)

PhaseAdd(a, b) == Phase(4 * (a.int + b.int) + a.frac + b.frac)

(***************************************************************************)
(* numpy helpers.                                                          *)
(***************************************************************************)
RECURSIVE npMinFrom(_, _)
npMinFrom(t, i) ==
    IF i = Len(t) THEN t[i]
    ELSE LET m == npMinFrom(t, i + 1) IN IF t[i] < m THEN t[i] ELSE m

\* the first element taken for the least
npMinFirst(t) == t[1]

npMin(t) == npMinFrom(t, 1)

RECURSIVE npMaxFrom(_, _)
npMaxFrom(t, i) ==
    IF i = Len(t) THEN t[i]
    ELSE LET m == npMaxFrom(t, i + 1) IN IF t[i] > m THEN t[i] ELSE m

npMax(t) == npMaxFrom(t, 1)

\* np.searchsorted(a, v), side='left': binary search over 0-based [lo, hi)
RECURSIVE bisectLeft(_, _, _, _)
bisectLeft(a, v, lo, hi) ==
    IF lo >= hi THEN lo
    ELSE LET mid == lo + ((hi - lo) \div 2) IN
         IF a[mid + 1] < v THEN bisectLeft(a, v, mid + 1, hi)
         ELSE bisectLeft(a, v, lo, mid)

searchsorted(a, t) == [i \in 1 .. Len(t) |-> bisectLeft(a, t[i], 0, Len(a))]

\* a[i] for a Python index i: negative indices count from the end
PyInRange(a, i) == (i >= -Len(a)) /\ (i < Len(a))

PyGet(a, i) == IF i < 0 THEN a[Len(a) + i + 1] ELSE a[i + 1]

(***************************************************************************)
(* polycoEntry                                                             *)
(***************************************************************************)
\* polycoEntry.__init__(self, tmid, mjdspan, rphaseInt, rphaseFrac, f0, ncoeff,
\* coeffs, obs): eight arguments after self; any other count is a TypeError.
polycoEntry(args) ==
    IF Len(args) # 8 THEN [ok |-> FALSE]
    ELSE [ok |-> TRUE,
          entry |-> [tmid |-> args[1],
                     mjdspan |-> args[2],
                     tstart |-> args[1] - (args[2] \div 2),
                     tstop |-> args[1] + (args[2] \div 2),
                     rphase |-> Phase2(args[3], args[4]),
                     f0 |-> args[5],
                     ncoeff |-> args[6],
                     coeffs |-> args[7],
                     obs |-> args[8]]]

valid(e, t) == (t >= e.tmid - (e.mjdspan \div 2)) /\ (t < e.tmid + (e.mjdspan \div 2))

\* the Horner loop of evalabsphase, i the 0-based coefficient index
RECURSIVE horner(_, _, _, _)
horner(e, dt, i, phase) ==
    IF i < 0 THEN phase
    ELSE LET pI == Phase(4 * dt * phase.int)
             pF == Phase(dt * phase.frac)
             c == Phase(e.coeffs[i + 1])
         IN horner(e, dt, i - 1, PhaseAdd(PhaseAdd(pI, pF), c))

evalabsphase(e, t) ==
    LET dt == (t - e.tmid) * MinutesPerDay
        poly == horner(e, dt, e.ncoeff - 2, Phase(e.coeffs[e.ncoeff]))
    IN PhaseAdd(poly, PhaseAdd(e.rphase, Phase(4 * dt * 60 * e.f0)))

evalphase(e, t) == evalabsphase(e, t).frac

RECURSIVE ipow(_, _)
ipow(b, n) == IF n = 0 THEN 1 ELSE b * ipow(b, n - 1)

RECURSIVE freqSum(_, _, _)
freqSum(e, dt, i) ==
    IF i >= e.ncoeff THEN 0
    ELSE i * e.coeffs[i + 1] * ipow(dt, i - 1) + freqSum(e, dt, i + 1)

\* evalfreq is f0 + s/60; the value is kept as the pair (f0, s), s in quarter
\* cycles per minute, so that no division is taken.
evalfreq(e, t) ==
    LET dt == (t - e.tmid) * MinutesPerDay
    IN [f0 |-> e.f0, s |-> freqSum(e, dt, 1)]

(***************************************************************************)
(* tempo_polyco_table_reader.  A file is the sequence of its entries; an   *)
(* entry is its first line (the whitespace-separated fields), its second   *)
(* line and the coefficient lines that follow.  The reference phase field  *)
(* "-12.25" is [neg |-> TRUE, int |-> 12, frac |-> 1]: the digits before   *)
(* the point, and the digits after it counted in quarter cycles.           *)
(***************************************************************************)
RECURSIVE flatten(_, _)
flatten(lines, n) ==
    IF n = 0 THEN <<>> ELSE flatten(lines, n - 1) \o lines[n]

\* nCoeffLines = nCoeff/3, plus one when nCoeff%3 > 0
nCoeffLines(nCoeff) == (nCoeff \div 3) + (IF nCoeff % 3 > 0 THEN 1 ELSE 0)

\* fields[0].split('.') of the second line, then the sign rule of lines 181-184
refPhaseInt(text) == IF text.neg THEN -text.int ELSE text.int

refPhaseFrac(text) == IF refPhaseInt(text) < 0 THEN -text.frac ELSE text.frac

\* one pass of the while loop: the entry of one group of lines, or a failure.
\* It fails on a first line with fewer than 7 fields and on a second line with
\* fewer than 6. It reads nCoeffLines lines and appends every token of each
\* (lines 204-207), without comparing their number with nCoeff. Of a group
\* with more coefficient lines the next is taken as the first line of an entry
\* and has too few fields; of a group with fewer, the lines are taken from the
\* entry that follows (its first line holds no number) or, in the last group
\* of the file, readline returns '' and nothing is appended.
readEntry(g, last) ==
    IF Len(g.line1) < 7 \/ Len(g.line2) < 6 THEN [ok |-> FALSE]
    ELSE LET tmid == g.line1[4]
             mjdSpan == g.line2[4] \div (60 * 24)
             nCoeff == g.line2[5]
             nRead == IF Len(g.lines) < nCoeffLines(nCoeff)
                      THEN Len(g.lines) ELSE nCoeffLines(nCoeff)
         IN IF Len(g.lines) > nCoeffLines(nCoeff) THEN [ok |-> FALSE]
            ELSE IF Len(g.lines) < nCoeffLines(nCoeff) /\ ~last THEN [ok |-> FALSE]
            ELSE polycoEntry(<<tmid, mjdSpan, refPhaseInt(g.line2[1]),
                               refPhaseFrac(g.line2[1]), g.line2[2], nCoeff,
                               flatten(g.lines, nRead), g.line2[3]>>)

RECURSIVE readEntries(_, _, _)
readEntries(file, i, entries) ==
    IF i > Len(file) THEN [ok |-> TRUE, rows |-> entries]
    ELSE LET e == readEntry(file[i], i = Len(file)) IN
         IF ~e.ok THEN [ok |-> FALSE, rows |-> <<>>]
         ELSE readEntries(file, i + 1, Append(entries, e.entry))

\* the rows of the table: of each row only the 'entry' column is kept
tempo_polyco_table_reader(file) == readEntries(file, 1, <<>>)

(***************************************************************************)
(* The polyco files read in the model: up to MaxSeg entries in time order, *)
(* each with a span of two days (so entries at 1 and 3 are contiguous and  *)
(* those at 1 and 5 leave the gap [2, 4)) and the same three coefficients; *)
(* the empty file; and a file whose first line is cut short.               *)
(***************************************************************************)
Fits ==
    { [rphase |-> [neg |-> TRUE, int |-> 2, frac |-> 3], f0 |-> 2, ncoeff |-> 3,
       lines |-> << <<1, 3, 1>> >>] }

SpanMinutes == 2 * MinutesPerDay

Group(fit, tmid) ==
    [line1 |-> <<"psr", "date", "utc", tmid, 0, 0, 0>>,
     line2 |-> <<fit.rphase, fit.f0, "obs", SpanMinutes, fit.ncoeff, 1400>>,
     lines |-> fit.lines]

MidLists ==
    { m \in UNION { [1 .. n -> Mids] : n \in 0 .. MaxSeg } :
        \A i \in 1 .. Len(m) : \A j \in 1 .. Len(m) : i < j => m[i] < m[j] }

CutFile == << [line1 |-> <<"psr", "date", "utc">>, line2 |-> <<>>, lines |-> <<>>] >>

Files ==
    { [i \in 1 .. Len(m) |-> Group(fit, m[i])] : fit \in Fits, m \in MidLists }
    \cup {CutFile}

(***************************************************************************)
(* The files given to the reader alone: one entry at midpoint 1, or that   *)
(* entry followed by a well-formed one at midpoint 3.  The entry either    *)
(* declares 2 .. MaxCoeff coefficients and holds none to three coefficient *)
(* lines of one to four tokens, or is well formed and writes its reference *)
(* phase with or without a sign, an integer part that is zero or not, a    *)
(* fraction that is zero or not.                                           *)
(***************************************************************************)
PhaseTexts == [neg : BOOLEAN, int : {0, 2}, frac : {0, 1, 3}]

CoeffLines ==
    { <<>>, << <<1, 3>> >>, << <<1, 3, 1>> >>, << <<1, 3, 1, 2>> >>,
      << <<1, 3, 1>>, <<2>> >>, << <<1, 3, 1>>, <<2, 1>> >>,
      << <<1, 3, 1>>, <<2>>, <<1>> >> }

CountFits ==
    [rphase : {[neg |-> FALSE, int |-> 2, frac |-> 1]}, f0 : {2},
     ncoeff : 2 .. MaxCoeff, lines : CoeffLines]

PhaseFits ==
    [rphase : PhaseTexts, f0 : {2}, ncoeff : {3}, lines : {<< <<1, 3, 1>> >>}]

ReaderFiles ==
    { << Group(fit, 1) >> : fit \in CountFits \cup PhaseFits }
    \cup { << Group(fit, 1), Group(good, 3) >> : fit \in CountFits, good \in Fits }

(***************************************************************************)
(* Polycos.find_entry                                                      *)
(***************************************************************************)
\* lines 447-455: len(self.dataTable) raises on None, and zero rows raise too
noData(table) == table = None \/ Len(table[1]) = 0

\* lines 457-459: the arrays are built only when one of them is None
cacheStart(table, ts, te) ==
    IF ts = None \/ te = None
    THEN Some([i \in 1 .. Len(table[1]) |-> table[1][i].tstart]) ELSE ts

cacheStop(table, ts, te) ==
    IF ts = None \/ te = None
    THEN Some([i \in 1 .. Len(table[1]) |-> table[1][i].tstop]) ELSE te

\* line 463
outOfDomain(a, b, t) == npMin(t) < a[1] \/ npMax(t) > b[Len(b)]

\* line 470: the 0-based positions of t beyond the stop of their entry
overFlow(b, t, entryIndex) ==
    { i \in 1 .. Len(t) : t[i] > PyGet(b, entryIndex[i]) }

\* lines 457-476: the lookup in a table that has rows. The outcome is the
\* status, the index array returned, and the cache the call leaves
lookup(table, ts, te, t) ==
    LET a == cacheStart(table, ts, te)
        b == cacheStop(table, ts, te)
        startIndex == searchsorted(a[1], t)
        entryIndex == [i \in 1 .. Len(t) |-> startIndex[i] - 1]
        over == overFlow(b[1], t, entryIndex)
        status ==
            IF outOfDomain(a[1], b[1], t) THEN "OutOfRange"
            ELSE IF over = {} THEN "ok"
            \* lines 472-473 index tStart and tStop by the positions in t
            ELSE IF \E i \in over : i > Len(a[1]) \/ i > Len(b[1])
                 THEN "IndexError"
            ELSE "CoverageGap"
    IN [status |-> status,
        value |-> IF status = "ok" THEN entryIndex ELSE <<>>,
        phases |-> <<>>,
        tStart |-> a, tStop |-> b]

\* find_entry with the range check done on a cache left by an earlier call
\* before the table is looked at
find_entryRangeFirst(table, ts, te, t) ==
    IF ts # None /\ te # None /\ outOfDomain(ts[1], te[1], t)
    THEN [status |-> "OutOfRange", value |-> <<>>, phases |-> <<>>,
          tStart |-> ts, tStop |-> te]
    ELSE IF noData(table)
    THEN [status |-> "NoData", value |-> <<>>, phases |-> <<>>,
          tStart |-> ts, tStop |-> te]
    ELSE lookup(table, ts, te, t)

\* lines 443-476: the outcome of find_entry(t) on the table and the cache given
find_entry(table, ts, te, t) ==
    IF noData(table)
    THEN [status |-> "NoData", value |-> <<>>, phases |-> <<>>,
          tStart |-> ts, tStop |-> te]
    ELSE lookup(table, ts, te, t)

(***************************************************************************)
(* Polycos.eval_phase, eval_abs_phase, eval_spin_freq: the outcome of the  *)
(* call on the table and the cache given.                                  *)
(***************************************************************************)
\* self.dataTable['entry'][i] raises IndexError for an index outside the table
rowsInRange(table, entryIndex) ==
    \A i \in 1 .. Len(entryIndex) : PyInRange(table[1], entryIndex[i])

\* lines 495-499: each time is evaluated on the entry of its own index
absPhaseRows(table, entryIndex, t) ==
    [i \in 1 .. Len(t) |->
        LET ph == evalabsphase(PyGet(table[1], entryIndex[i]), t[i])
        IN Phase2(ph.int, ph.frac)]

eval_abs_phase(table, ts, te, t) ==
    LET r == find_entry(table, ts, te, t) IN
    IF r.status # "ok" THEN r
    ELSE IF ~rowsInRange(table, r.value)
         THEN [r EXCEPT !.status = "IndexError", !.value = <<>>]
    ELSE [r EXCEPT !.value = <<>>, !.phases = absPhaseRows(table, r.value, t)]

\* line 485 assigns to absPhase, a name eval_phase never binds: the right-hand
\* side is evaluated, then the store raises NameError
eval_phase(table, ts, te, t) ==
    LET r == find_entry(table, ts, te, t) IN
    IF r.status # "ok" THEN r
    ELSE IF ~rowsInRange(table, r.value)
         THEN [r EXCEPT !.status = "IndexError", !.value = <<>>]
    ELSE [r EXCEPT !.status = "NameError", !.value = <<>>]

\* line 503 indexes the 'entry' column by the index array find_entry returns,
\* which yields a column; a column has no evalfreq: AttributeError
eval_spin_freq(table, ts, te, t) ==
    LET r == find_entry(table, ts, te, t) IN
    IF r.status # "ok" THEN r
    ELSE IF ~rowsInRange(table, r.value)
         THEN [r EXCEPT !.status = "IndexError", !.value = <<>>]
    ELSE [r EXCEPT !.status = "AttributeError", !.value = <<>>]

(***************************************************************************)
(* Polycos.generate_polycos, in minutes.                                   *)
(***************************************************************************)
\* lines 364-371
RECURSIVE windowLoop(_, _, _, _, _)
windowLoop(d0, d1, mjdEnd, segLength, windows) ==
    IF d1 < mjdEnd
    THEN LET n0 == d1
             n1 == IF mjdEnd - n0 < segLength THEN mjdEnd ELSE d1 + segLength
         IN windowLoop(n0, n1, mjdEnd, segLength, Append(windows, <<n0, n1>>))
    ELSE windows

\* lines 360-371
domainList(mjdStart, mjdEnd, segLength) ==
    windowLoop(mjdStart, mjdStart + segLength, mjdEnd, segLength,
               << <<mjdStart, mjdStart + segLength>> >>)

\* lines 375-376, 389-391: the roots of T_(ncoeff-1), in thousandths of the
\* window counted from its start, rescaled to the window
chebNodes(ncoeff, d0, d1) ==
    LET roots == IF ncoeff = 2 THEN <<500>> ELSE <<146, 854>>
    IN [i \in 1 .. Len(roots) |-> d0 + (((d1 - d0) * roots[i]) \div 1000)]

\* self.phase: the exact model, valid before oracleLimit; a linear phase of
\* one cycle per minute
phase(times, oracleLimit) ==
    IF \E i \in 1 .. Len(times) : times[i] >= oracleLimit THEN [ok |-> FALSE]
    ELSE [ok |-> TRUE, ph |-> [i \in 1 .. Len(times) |-> Phase(4 * times[i])]]

\* cheb.chebfit(x, y, deg) returns the deg+1 coefficients of a series of degree
\* deg; the fitted values are not modelled
chebfit(x, y, deg) == [i \in 1 .. deg + 1 |-> 0]

\* lines 378-408: the loop over the windows from window i on; coeffs is the
\* array fitted in the window where the loop was left
RECURSIVE fitWindows(_, _, _, _, _)
fitWindows(dl, i, ncoeff, oracleLimit, entryList) ==
    IF i > Len(dl) THEN [status |-> "ok", rows |-> entryList, coeffs |-> <<>>]
    ELSE LET tmid == (dl[i][2] + dl[i][1]) \div 2
             refPhase == phase(<<tmid>>, oracleLimit)
             mjdSpan == dl[i][2] - dl[i][1]
             nodesMjd == chebNodes(ncoeff, dl[i][1], dl[i][2])
             ph == phase(nodesMjd, oracleLimit)
         IN IF ~refPhase.ok \/ ~ph.ok
            THEN [status |-> "OracleFailure", rows |-> entryList, coeffs |-> <<>>]
            ELSE LET rdcPhase == [k \in 1 .. Len(nodesMjd) |->
                                    4 * (ph.ph[k].int - refPhase.ph[1].int)
                                    + ph.ph[k].frac - refPhase.ph[1].frac]
                     coeffs == chebfit(nodesMjd, rdcPhase, ncoeff)
                     \* line 407: seven arguments
                     entry == polycoEntry(<<tmid, mjdSpan,
                                  4 * refPhase.ph[1].int + refPhase.ph[1].frac,
                                  1, ncoeff, coeffs, "obs">>)
                 IN IF ~entry.ok
                    THEN [status |-> "TypeError", rows |-> entryList,
                          coeffs |-> coeffs]
                    ELSE fitWindows(dl, i + 1, ncoeff, oracleLimit,
                                    Append(entryList, entry.entry))

\* the table assigned whether or not the loop ended: the windows fitted so far
generatedPartial(old, fit) == Some(fit.rows)

\* line 414: self.dataTable = pTable, reached only when every window was fitted
generatedTable(old, fit) == IF fit.status = "ok" THEN Some(fit.rows) ELSE old

(***************************************************************************)
(* The format list and the registry.                                       *)
(***************************************************************************)
\* the dict of one format; a key that is absent is "unset"
tempoFormat == [format |-> "tempo", read_method |-> "tempo_polyco_table_reader",
                write_method |-> "None"]

\* [f['format'] for f in self.polycoFormat]
formatNames(list) == { list[i].format : i \in 1 .. Len(list) }

\* registry.get_formats()['Format']
registeredFormats(reg) == { reg[i].format : i \in 1 .. Len(reg) }

hasReader(reg, name) ==
    \E i \in 1 .. Len(reg) : reg[i].format = name /\ reg[i].kind = "reader"

\* registry.register_reader / register_writer
register(reg, name, kind) == Append(reg, [format |-> name, kind |-> kind])

\* lines 251-259
initRegistry(reg, list) ==
    IF list[1].format \in registeredFormats(reg) THEN reg
    ELSE LET r1 == IF list[1].read_method # "None"
                   THEN register(reg, list[1].format, "reader") ELSE reg
         IN IF list[1].write_method # "None"
            THEN register(r1, list[1].format, "writer") ELSE r1

\* the registry of astropy before any Polycos is made
builtinRegistry == << [format |-> "ascii", kind |-> "reader"],
                      [format |-> "ascii", kind |-> "writer"] >>

\* the check of the object's own list alone
formatInList(list, reg, formatName) == formatName \in formatNames(list)

\* lines 297-301: the format is known to the object or to the registry
formatExists(list, reg, formatName) ==
    formatName \in formatNames(list) \/ formatName \in registeredFormats(reg)

\* lines 297-334: the outcome of add_polyco_file_format on one object's list
\* and the registry
add_polyco_file_format(list, reg, formatName, methodMood, readMethod, writeMethod) ==
    LET full == [format |-> formatName, read_method |-> readMethod,
                 write_method |-> writeMethod]
        same == [status |-> "", list |-> list, reg |-> reg]
    IN IF formatExists(list, reg, formatName)
       THEN [same EXCEPT !.status = "DuplicateFormat"]
       ELSE IF methodMood = "r"
       THEN IF readMethod = "None" THEN [same EXCEPT !.status = "ArgumentError"]
            ELSE [status |-> "ok", list |-> Append(list, full),
                  reg |-> register(reg, formatName, "reader")]
       ELSE IF methodMood = "w"
       THEN IF writeMethod = "None" THEN [same EXCEPT !.status = "ArgumentError"]
            ELSE [status |-> "ok", list |-> Append(list, full),
                  reg |-> register(reg, formatName, "writer")]
       ELSE IF methodMood = "rw"
       THEN IF readMethod = "None" \/ writeMethod = "None"
            THEN [same EXCEPT !.status = "ArgumentError"]
            ELSE [status |-> "ok", list |-> Append(list, full),
                  reg |-> register(register(reg, formatName, "reader"),
                                   formatName, "writer")]
       \* no branch is taken: pFormat holds the name alone and is appended
       ELSE [status |-> "ok",
             list |-> Append(list, [format |-> formatName, read_method |-> "unset",
                                    write_method |-> "unset"]),
             reg |-> reg]

(***************************************************************************)
(* The inputs of the calls.                                                *)
(***************************************************************************)
\* a scalar time is wrapped into an array of one element (lines 444-445)
ScalarTimes == { <<a>> : a \in Times }

\* the batched calls of the model are those on two times
QueryTimes == ScalarTimes \cup { <<a, b>> : a \in Times, b \in Times }

FormatArgs == {"tempo", "ascii", "presto"}
MoodArgs == {"r", "w", "rw", "a"}
ReadMethods == {"None", "tempo_polyco_table_reader"}
WriteMethods == {"None", "writer"}

\* generate_polycos: start and end in days, the segment length in minutes
GenDays == { <<0, 1>>, <<1, 2>> }
SegLengths == {720, 1000, 2880}
OracleLimits == {600, 100000}

(***************************************************************************)
(* The state machine.                                                      *)
(***************************************************************************)
\* the record of a call: the times or numbers it was given (t), the names it
\* was given (args), how it ended, and what it returned or built: an index
\* array (value), phases, the windows of generate_polycos and the coefficients
\* it fitted last, the file of read_polyco_file
Call(op, t, args, status) ==
    [op |-> op, t |-> t, args |-> args, status |-> status,
     value |-> <<>>, phases |-> <<>>, windows |-> <<>>, coeffs |-> <<>>,
     file |-> <<>>]

\* Polycos.__init__ of the first object, in a process where astropy is loaded
Init ==
    /\ dataTable = None
    /\ tStart = None
    /\ tStop = None
    /\ fileFormat = None
    /\ polycoFormat = [o \in Objs |-> IF o = 1 THEN <<tempoFormat>> ELSE <<>>]
    /\ registry = initRegistry(builtinRegistry, <<tempoFormat>>)
    /\ ret = Call("__init__", <<1>>, <<>>, "ok")

\* Polycos.__init__ of a further object (its table is not followed)
Polycos__init__(o) ==
    /\ polycoFormat[o] = <<>>
    /\ polycoFormat' = [polycoFormat EXCEPT ![o] = <<tempoFormat>>]
    /\ registry' = initRegistry(registry, <<tempoFormat>>)
    /\ ret' = Call("__init__", <<o>>, <<>>, "ok")
    /\ UNCHANGED <<dataTable, tStart, tStop, fileFormat>>

AddFormat(o, formatName, methodMood, readMethod, writeMethod) ==
    /\ polycoFormat[o] # <<>>
    /\ \E r \in {add_polyco_file_format(polycoFormat[o], registry, formatName,
                                         methodMood, readMethod, writeMethod)} :
          /\ polycoFormat' = [polycoFormat EXCEPT ![o] = r.list]
          /\ registry' = r.reg
          /\ ret' = Call("add_polyco_file_format", <<o>>,
                         <<formatName, methodMood, readMethod, writeMethod>>,
                         r.status)
    /\ UNCHANGED <<dataTable, tStart, tStop, fileFormat>>

\* lines 432-441, on the first object. For a file with no entry the reader
\* ends in table.Table(rows = [], names = ...) (lines 215-218), which by the
\* version of astropy builds a table of no rows or raises: emptyBuilds
ReadPolycoFile(file, format, emptyBuilds) ==
    \E table \in {tempo_polyco_table_reader(file)} :
    LET known == format \in formatNames(polycoFormat[1])
        status == IF ~known THEN "UnknownFormat"
                  ELSE IF ~hasReader(registry, format) THEN "NoReader"
                  ELSE IF ~table.ok THEN "ParseError"
                  ELSE IF table.rows = <<>> /\ ~emptyBuilds THEN "TableError"
                  ELSE "ok"
    IN /\ fileFormat' = IF known THEN Some(format) ELSE fileFormat
       /\ dataTable' = IF status = "ok" THEN Some(table.rows) ELSE dataTable
       /\ ret' = [Call("read_polyco_file", <<>>, <<format>>, status)
                    EXCEPT !.file = file]
       /\ UNCHANGED <<tStart, tStop, polycoFormat, registry>>

\* lines 348-418; any method other than "TEMPO" does nothing
GeneratePolycos(dayStart, dayEnd, segLength, ncoeff, oracleLimit, method) ==
    /\ dayStart < dayEnd
    /\ \E dl \in {domainList(dayStart * MinutesPerDay, dayEnd * MinutesPerDay,
                               segLength)} :
       \E fit \in {fitWindows(dl, 1, ncoeff, oracleLimit, <<>>)} :
          /\ dataTable' = IF method = "TEMPO" THEN generatedTable(dataTable, fit)
                          ELSE dataTable
          /\ ret' = [Call("generate_polycos",
                          <<dayStart * MinutesPerDay, dayEnd * MinutesPerDay,
                            segLength, ncoeff>>,
                          <<method>>,
                          IF method = "TEMPO" THEN fit.status ELSE "ok")
                        EXCEPT !.windows = dl,
                               !.coeffs = IF method = "TEMPO" THEN fit.coeffs
                                          ELSE <<>>]
    /\ UNCHANGED <<tStart, tStop, fileFormat, polycoFormat, registry>>

\* a query leaves the cache its find_entry built and returns or raises
Returned(op, t, r) ==
    /\ tStart' = r.tStart
    /\ tStop' = r.tStop
    /\ ret' = [Call(op, t, <<>>, r.status)
                 EXCEPT !.value = r.value, !.phases = r.phases]
    /\ UNCHANGED <<dataTable, fileFormat, polycoFormat, registry>>

FindEntry(t) ==
    \E r \in {find_entry(dataTable, tStart, tStop, t)} : Returned("find_entry", t, r)

EvalPhase(t) ==
    \E r \in {eval_phase(dataTable, tStart, tStop, t)} : Returned("eval_phase", t, r)

EvalAbsPhase(t) ==
    \E r \in {eval_abs_phase(dataTable, tStart, tStop, t)} :
        Returned("eval_abs_phase", t, r)

EvalSpinFreq(t) ==
    \E r \in {eval_spin_freq(dataTable, tStart, tStop, t)} :
        Returned("eval_spin_freq", t, r)

Next ==
    \/ \E file \in Files, format \in {"tempo", "presto"}, emptyBuilds \in BOOLEAN :
            ReadPolycoFile(file, format, emptyBuilds)
    \/ \E d \in GenDays, seg \in SegLengths, n \in {2, 3},
          lim \in OracleLimits, method \in {"TEMPO", "FILE"} :
            GeneratePolycos(d[1], d[2], seg, n, lim, method)
    \/ \E t \in QueryTimes : FindEntry(t)
    \/ \E t \in ScalarTimes : EvalPhase(t)
    \/ \E t \in QueryTimes : EvalAbsPhase(t)
    \/ \E t \in ScalarTimes : EvalSpinFreq(t)

Spec == Init /\ [][Next]_vars

\* the format list and the registry, over several objects
NextFormats ==
    \/ \E o \in Objs : Polycos__init__(o)
    \/ \E o \in Objs, f \in FormatArgs, m \in MoodArgs, rm \in ReadMethods,
          wm \in WriteMethods : AddFormat(o, f, m, rm, wm)

SpecFormats == Init /\ [][NextFormats]_vars

\* the reader and the generator alone: the segments they make are not queried
NextReader ==
    \/ \E file \in ReaderFiles, emptyBuilds \in BOOLEAN :
            ReadPolycoFile(file, "tempo", emptyBuilds)
    \/ \E d \in GenDays, seg \in SegLengths, n \in {2, 3},
          lim \in OracleLimits, method \in {"TEMPO", "FILE"} :
            GeneratePolycos(d[1], d[2], seg, n, lim, method)

SpecReader == Init /\ [][NextReader]_vars

(***************************************************************************)
(* Properties.                                                             *)
(***************************************************************************)
QueryOps == {"find_entry", "eval_phase", "eval_abs_phase", "eval_spin_freq"}

Populated == ~noData(dataTable)

rows == dataTable[1]

\* the segments are sorted by start and do not overlap
SortedNoOverlap ==
    \A k \in 1 .. Len(rows) - 1 :
        /\ rows[k].tstart < rows[k + 1].tstart
        /\ rows[k].tstop <= rows[k + 1].tstart

\* the cache the last lookup searched is the one of the segments in dataTable
CacheOfTable ==
    /\ tStart = Some([i \in 1 .. Len(rows) |-> rows[i].tstart])
    /\ tStop = Some([i \in 1 .. Len(rows) |-> rows[i].tstop])

\* the last call was find_entry on one time, on a well-formed table searched
\* through its own starts and stops
ScalarLookup ==
    /\ ret.op = "find_entry"
    /\ Len(ret.t) = 1
    /\ Populated
    /\ SortedNoOverlap
    /\ CacheOfTable

\* C1: on a sorted, non-overlapping table find_entry(t) returns k for every t
\* with start_k <= t < stop_k (t = start_k and k = 0 included), the index of
\* the one segment valid at t.
C1_FindEntryReturnsCoveringSegment ==
    ScalarLookup =>
        \A k \in 1 .. Len(rows) :
            valid(rows[k], ret.t[1]) => ret.status = "ok" /\ ret.value = <<k - 1>>

\* C2: find_entry(t) fails with the out-of-range error for every t before the
\* first start or at or after the last stop, and returns no index there.
C2_OutsideDomainIsOutOfRange ==
    ScalarLookup =>
        (ret.t[1] < rows[1].tstart \/ ret.t[1] >= rows[Len(rows)].tstop
            => ret.status = "OutOfRange")

\* C3: with a gap between segments k and k+1, find_entry(t) fails with the
\* coverage-gap error for every t with stop_k <= t < start_(k+1), and returns
\* no index there.
C3_GapIsCoverageGap ==
    ScalarLookup =>
        \A k \in 1 .. Len(rows) - 1 :
            (rows[k].tstop <= ret.t[1] /\ ret.t[1] < rows[k + 1].tstart)
                => ret.status = "CoverageGap"

\* C4: while the table is None or has no rows, every query fails with the
\* no-data error for every t, whatever cache an earlier table left, and
\* changes neither the table nor the cache; and a table with no rows comes to
\* have rows only by a read or a generate that succeeds.
C4_EmptyTableFailsNoData ==
    [][ /\ (noData(dataTable) /\ ret'.op \in QueryOps)
            => /\ ret'.status = "NoData"
               /\ dataTable' = dataTable
               /\ tStart' = tStart
               /\ tStop' = tStop
        /\ (noData(dataTable) /\ ~noData(dataTable'))
            => /\ ret'.op \in {"read_polyco_file", "generate_polycos"}
               /\ ret'.status = "ok" ]_vars

\* a query on a table with no rows met a cache left by an earlier table
C4_Witness ==
    /\ ret.op = "eval_abs_phase"
    /\ ret.status = "NoData"
    /\ dataTable = Some(<<>>)
    /\ tStart # None

\* C5: after any sequence of reads, generates and queries, the arrays tStart
\* and tStop that a lookup has searched are the starts and stops of the
\* segments now in dataTable.
C5_CacheFollowsTable ==
    (ret.op \in QueryOps /\ ret.status # "NoData") => CacheOfTable

\* the windows partition [mjdStart, mjdEnd) in steps of segLength
Partitions(dl, mjdStart, mjdEnd, segLength) ==
    /\ dl[1][1] = mjdStart
    /\ \A i \in 1 .. Len(dl) - 1 :
        dl[i + 1][1] = dl[i][2] /\ dl[i][2] - dl[i][1] = segLength
    /\ dl[Len(dl)][2] = mjdEnd

\* C6: for every start < end and every positive segment length (longer than
\* the interval or not dividing it included) the windows of generate_polycos
\* partition [start, end): the first starts at start, each starts where the
\* one before ends, all but the last have the segment length, and the last
\* ends at end.
C6_WindowsPartitionInterval ==
    ret.op = "generate_polycos" => Partitions(ret.windows, ret.t[1], ret.t[2], ret.t[3])

\* C7: when the oracle fails during generate_polycos the call ends with that
\* error and dataTable is what it was before the call, never a table of the
\* windows fitted so far.
C7_OracleFailureLeavesTable ==
    [][ (ret'.op = "generate_polycos" /\ ret'.status = "OracleFailure")
            => dataTable' = dataTable /\ tStart' = tStart /\ tStop' = tStop ]_vars

\* the oracle failed in a generate called on a table that a read had filled
C7_Witness ==
    /\ ret.op = "generate_polycos"
    /\ ret.status = "OracleFailure"
    /\ Populated

\* the same call on the i-th time alone, issued on the state the batched call left
Alone(i) ==
    IF ret.op = "find_entry"
    THEN find_entry(dataTable, tStart, tStop, <<ret.t[i]>>)
    ELSE eval_abs_phase(dataTable, tStart, tStop, <<ret.t[i]>>)

\* C8: a batched find_entry or eval_abs_phase returns exactly when the call on
\* each time alone returns, and then its i-th result is the result of the
\* call on the i-th time alone, in the order of the times.
C8_BatchedEqualsAlone ==
    (ret.op \in {"find_entry", "eval_abs_phase"} /\ Len(ret.t) = 2 /\ Populated)
        => /\ (ret.status = "ok") <=> (Alone(1).status = "ok" /\ Alone(2).status = "ok")
           /\ ret.status = "ok"
                => /\ ret.value = Alone(1).value \o Alone(2).value
                   /\ ret.phases = Alone(1).phases \o Alone(2).phases

\* a batched eval_abs_phase returned for two times of different segments
C8_Witness ==
    /\ ret.op = "eval_abs_phase"
    /\ Len(ret.t) = 2
    /\ ret.status = "ok"
    /\ find_entry(dataTable, tStart, tStop, <<ret.t[1]>>).value
         # find_entry(dataTable, tStart, tStop, <<ret.t[2]>>).value

\* the last call returned what the evaluator of entry e gives at time t: the
\* fractional phase, the phase, or the frequency (a frequency f0 + s/60 is
\* returned as the pair f0, s)
ReturnedEvaluation(e, t) ==
    IF ret.op = "eval_phase" THEN ret.value = <<evalphase(e, t)>>
    ELSE IF ret.op = "eval_abs_phase" THEN ret.phases = <<evalabsphase(e, t)>>
    ELSE ret.value = <<evalfreq(e, t).f0, evalfreq(e, t).s>>

\* C9: for a time that a segment covers, eval_phase, eval_abs_phase and
\* eval_spin_freq return what the evaluator of the segment find_entry resolves
\* gives at that time: the fractional phase, the phase, the frequency.
C9_EvalDelegatesToSegment ==
    ( /\ ret.op \in {"eval_phase", "eval_abs_phase", "eval_spin_freq"}
      /\ Len(ret.t) = 1
      /\ Populated /\ SortedNoOverlap /\ CacheOfTable
      /\ \E k \in 1 .. Len(rows) : valid(rows[k], ret.t[1])
      /\ find_entry(dataTable, tStart, tStop, ret.t).status = "ok" )
        => /\ ret.status = "ok"
           /\ ReturnedEvaluation(
                PyGet(rows, find_entry(dataTable, tStart, tStop, ret.t).value[1]),
                ret.t[1])

\* no object lists a format name twice, and the registry holds no reader and
\* no writer twice
RegisteredOnce ==
    /\ \A o \in Objs : \A i, j \in 1 .. Len(polycoFormat[o]) :
        polycoFormat[o][i].format = polycoFormat[o][j].format => i = j
    /\ \A i, j \in 1 .. Len(registry) : registry[i] = registry[j] => i = j

\* C10: add_polyco_file_format with a name that the object's list or the
\* registry already holds fails with the duplicate-format error and changes
\* neither; so each name is registered at most once, whatever the objects that
\* registered.
C10_DuplicateFormatRejected ==
    /\ []RegisteredOnce
    /\ [][ ( /\ ret'.op = "add_polyco_file_format"
             /\ formatExists(polycoFormat[ret'.t[1]], registry, ret'.args[1]) )
            => /\ ret'.status = "DuplicateFormat"
               /\ polycoFormat' = polycoFormat
               /\ registry' = registry ]_vars

\* an object was refused a name that another object had registered
C10_Witness ==
    /\ ret.op = "add_polyco_file_format"
    /\ ret.status = "DuplicateFormat"
    /\ ret.args[1] = "presto"
    /\ ret.args[1] \notin formatNames(polycoFormat[ret.t[1]])

\* C11: every segment that the reader or the generator makes holds as many
\* coefficients as it declares: a read that succeeds leaves rows whose coeffs
\* have length ncoeff (a file whose coefficient lines hold another number of
\* tokens fails the read), and generate_polycos called with ncoeff fits ncoeff
\* coefficients, a polynomial of degree ncoeff - 1.
C11_SegmentsHoldDeclaredCount ==
    /\ dataTable # None
         => \A k \in 1 .. Len(rows) : Len(rows[k].coeffs) = rows[k].ncoeff
    /\ (ret.op = "generate_polycos" /\ ret.coeffs # <<>>)
         => Len(ret.coeffs) = ret.t[4]

\* the reference phase as the file writes it, in quarter cycles
writtenPhase(text) ==
    IF text.neg THEN -(4 * text.int + text.frac) ELSE 4 * text.int + text.frac

\* C12: for every reference phase that tempo_polyco_table_reader reads, the
\* integer and fractional parts given to the segment add up to the value the
\* file writes: the fraction of a text that starts with '-' is negated, when
\* its integer part is zero (-0.25) as when it is not.
C12_ReferencePhaseAsWritten ==
    (ret.op = "read_polyco_file" /\ ret.status = "ok")
        => \A k \in 1 .. Len(rows) :
              rows[k].rphase = Phase(writtenPhase(ret.file[k].line2[1]))

\* C13: after any calls of add_polyco_file_format, returned or raised and with
\* any methodMood (one that is none of 'r', 'w', 'rw' included), every name in
\* the format list of every object has a reader or a writer registered under
\* it in the registry: a call that registers nothing lists nothing.
C13_ListedFormatsAreRegistered ==
    \A o \in Objs : formatNames(polycoFormat[o]) \subseteq registeredFormats(registry)

====
